---------------------------- MODULE Spec2Model ----------------------------
(***************************************************************************)
(* Task lifecycle of the CRM tracker: the store API of store-async.js      *)
(* (src/unnamed/part_000) over its two backends, the embedded localStorage *)
(* store of src/src/store.js and the Supabase tables and row-level         *)
(* security policies of src/unnamed/part_007, with the handlers of the     *)
(* tasks table (src/unnamed/part_003) and of the kanban board              *)
(* (src/src/kanban.js) that call it.                                       *)
(*                                                                         *)
(* A store.js function carries the name store-async.js imports it under    *)
(* (_updateTask); the store-async.js function of the same name is the one  *)
(* without the underscore.  JavaScript null/undefined is NULL for          *)
(* references and strings and NoTime for timestamps.  A timestamp is the   *)
(* value of the clock `now` when the code evaluated new Date().  A date is *)
(* the calendar month (1..12) of a mid-month ISO date string.  The rows of *)
(* the iterations table are kept on their task, in insertion order, as     *)
(* every read of a task returns them, and a row carries the camelCase keys *)
(* mapTaskFromDB gives it.  The notification and activity-log stores are   *)
(* read by no operation modelled here.                                     *)
(***************************************************************************)
EXTENDS Integers, Sequences, FiniteSets, TLC

\* ------------------------------------------------------------------ bounds
MaxTasks == 2
MaxCreated == 3
MaxNow == 2
MaxIter == 2

\* --------------------------------------------------------------- constants
NULL == "null"
NoTime == 0

Backends == {"local", "supabase"}
Tabs == {"tab1", "tab2"}
\* requests that can fail on their own: the read of a task from the remote
\* tables, a notification write, the admin lookup, an activity-log write
Faults == {"read", "notify", "admins", "activity"}
TaskIds == 1..MaxCreated
Dates == {1, 2}
Creatives == {"img1"}
Reasons == {"color off", "wrong size"}
Blames == {"freelancer", "admin", "client"}

KANBAN_COLUMNS == {"assigned", "in_progress", "submitted", "approved", "iteration", "rejected"}

\* seedData: the three default users
SeedUsers ==
    << [id |-> "u1", name |-> "Super Admin", email |-> "superadmin@tracker.com",
        password |-> "admin123", role |-> "superadmin"],
       [id |-> "u2", name |-> "Admin User", email |-> "admin@tracker.com",
        password |-> "admin123", role |-> "admin"],
       [id |-> "u3", name |-> "Safvan", email |-> "safvan@tracker.com",
        password |-> "freelancer123", role |-> "freelancer"] >>

UserIds == {SeedUsers[i].id : i \in 1..Len(SeedUsers)}
Passwords == {"admin123", "freelancer123"}

VARIABLES
    tasks,      \* the task records: localStorage crm_tasks, or the tasks table
    issued,     \* history: the slNo given by each successful addTask, in call order
    serial,     \* the sequence behind the tasks table's sl_no SERIAL column
    now,        \* the clock read by new Date()
    session,    \* the logged-in user id (crm_session, auth.uid()) or NULL
    backend,    \* which backend the build is configured for
    last,       \* the last store call, its task id, its outcome and its writes
    calls,      \* per browser tab: the remote call in flight between two awaits
    faults,     \* the storage requests that fail at present
    mirror,     \* the embedded store after the same calls, where both are run
    selected,   \* appState.selectedTaskIds
    toast,      \* the last success toast of a bulk operation and its count
    users,      \* the stored users: crm_users, or profiles with their auth users
    expiresAt,  \* the expiresAt of the stored session, NoTime when it has none
    _cachedUser, \* store-async.js _cachedUser: UNDEFINED, NULL or a user id
    awaiting,   \* the getCurrentUser and logout calls of the page between awaits
    authUsers   \* auth.users of the remote backend: the id and email of each

vars == <<tasks, issued, serial, now, session, backend, last, calls, faults, mirror,
          selected, toast, users, expiresAt, _cachedUser, awaiting, authUsers>>

\* the state of the task table page
page == <<selected, toast>>

\* the state outside the task store and the session
aside == <<calls, faults, mirror, page, users, expiresAt, _cachedUser, awaiting, authUsers>>

\* ------------------------------------------------------------ pure helpers
Max(S) == CHOOSE x \in S : \A y \in S : y <= x

\* new Date(date).getMonth(), EXTRACT(MONTH FROM date) - 1: the 0-indexed month
getMonth(date) == date - 1

\* users.find(u => u.id === id)
getUserById(id) ==
    IF \E i \in 1..Len(SeedUsers) : SeedUsers[i].id = id
    THEN SeedUsers[CHOOSE i \in 1..Len(SeedUsers) : SeedUsers[i].id = id]
    ELSE NULL

\* getFreelancers(): ids of the users with role freelancer
getFreelancers == {SeedUsers[i].id : i \in {j \in 1..Len(SeedUsers) : SeedUsers[j].role = "freelancer"}}

\* tasks.findIndex(t => t.id === id), 0 when absent (JS -1)
findIndex(ts, id) ==
    IF \E i \in 1..Len(ts) : ts[i].id = id
    THEN CHOOSE i \in 1..Len(ts) : ts[i].id = id /\ \A j \in 1..(i - 1) : ts[j].id # id
    ELSE 0

\* store.js getTaskById: the record; hasTask is its truthiness (undefined when absent)
hasTask(ts, id) == findIndex(ts, id) # 0
_getTaskById(ts, id) == ts[findIndex(ts, id)]

\* x || null and x || '' on a string or null
orNull(x) == IF x = "" THEN NULL ELSE x
orEmpty(x) == IF x = NULL THEN "" ELSE x

\* a call's outcome: the store it leaves, the error it threw, if any, and
\* the storage writes it made, in order
Ok(ts) == [err |-> "none", tasks |-> ts, effects |-> << >>]
Throw(e, ts) == [err |-> e, tasks |-> ts, effects |-> << >>]

\* the outcome of a call that wrote task id (or one of its iterations)
TaskWrite(id) == [kind |-> "task", userId |-> NULL, type |-> "write", taskId |-> id]
Wrote(ts, id) == [err |-> "none", tasks |-> ts, effects |-> <<TaskWrite(id)>>]

\* outcome r followed by the writes es, and preceded by them
Then(r, es) == [r EXCEPT !.effects = @ \o es]
After(es, r) == [r EXCEPT !.effects = es \o @]

NotFound == "Task not found"
NoCreative == "Please upload a completed creative before submitting"
\* error.message of a single() that matched no row, and of a refused insert
NoRows == "JSON object requested, multiple (or no) rows returned"
RlsDenied == "new row violates row-level security policy"

\* ------------------------------------------------------------ store.js: auth
\* login: the id of the first user with this email and password, or NULL
_login(email, password) ==
    LET hits == {i \in 1..Len(SeedUsers) :
                    SeedUsers[i].email = email /\ SeedUsers[i].password = password}
    IN IF hits = {} THEN NULL
       ELSE SeedUsers[CHOOSE i \in hits : \A j \in hits : i <= j].id

\* isAdmin()
isAdmin(u) == u # NULL /\ getUserById(u).role \in {"admin", "superadmin"}

\* ------------------------------------------------- store.js: tasks CRUD
\* addTask: slNo = 1 + max existing slNo (0 when the array is empty)
maxSlNo(ts) == IF Len(ts) > 0 THEN Max({ts[i].slNo : i \in 1..Len(ts)}) ELSE 0

\* the record of a new task with this sequential number
newTask(slNo, id, taskData, t) ==
    [id |-> id,
     slNo |-> slNo,
     date |-> taskData.date,
     completedCreative |-> NULL,
     completedCreativeAt |-> NoTime,
     creativeStatus |-> "Pending",
     assignedTo |-> orNull(taskData.assignedTo),
     assignedBy |-> orNull(taskData.assignedBy),
     status |-> "assigned",
     assignedAt |-> t,
     pickedUpAt |-> NoTime,
     submittedAt |-> NoTime,
     rejectedAt |-> NoTime,
     rejectionReason |-> NULL,
     month |-> getMonth(taskData.date),
     iterations |-> << >>]

_addTask(ts, id, taskData, t) ==
    Wrote(Append(ts, newTask(maxSlNo(ts) + 1, id, taskData, t)), id)

\* updateTask: tasks[index] = { ...tasks[index], ...data }
_updateTask(ts, id, data) ==
    IF findIndex(ts, id) = 0 THEN Throw(NotFound, ts)
    ELSE Wrote([ts EXCEPT ![findIndex(ts, id)] = data @@ @], id)

\* deleteTask: tasks.filter(t => t.id !== id)
_deleteTask(ts, id) == Wrote(SelectSeq(ts, LAMBDA t : t.id # id), id)

\* -------------------------------------------- store.js: lifecycle actions
_submitTask(ts, id, t) ==
    IF ~hasTask(ts, id) THEN Throw(NotFound, ts)
    ELSE IF _getTaskById(ts, id).completedCreative = NULL THEN Throw(NoCreative, ts)
    ELSE _updateTask(ts, id, [status |-> "submitted", submittedAt |-> t])

\* the iteration record a request creates
newIteration(task, reason, blame, t) ==
    [number |-> Len(task.iterations) + 1,
     reason |-> reason,
     blame |-> blame,
     requestedAt |-> t,
     resolvedAt |-> NoTime]

_requestIteration(ts, id, reason, blame, t) ==
    IF ~hasTask(ts, id) THEN Throw(NotFound, ts)
    ELSE LET task == _getTaskById(ts, id)
         IN _updateTask(ts, id,
                [status |-> "iteration",
                 creativeStatus |-> "Iteration",
                 iterations |-> Append(task.iterations, newIteration(task, reason, blame, t)),
                 pickedUpAt |-> NoTime,
                 submittedAt |-> NoTime])

\* resolveIteration: stamps the LAST element of the array, whatever its state
_resolveIteration(ts, id, t) ==
    IF ~hasTask(ts, id) THEN Throw(NotFound, ts)
    ELSE LET its == _getTaskById(ts, id).iterations
             iterations == IF Len(its) > 0
                           THEN [its EXCEPT ![Len(its)].resolvedAt = t]
                           ELSE its
         IN _updateTask(ts, id, [iterations |-> iterations])

\* ------------------------------------------- store-async.js: case mappers
\* key.replace(/[A-Z]/g, l => '_' + l.toLowerCase()) on each key of a task
SnakeKeys ==
    [id |-> "id", slNo |-> "sl_no", date |-> "date",
     completedCreative |-> "completed_creative",
     completedCreativeAt |-> "completed_creative_at",
     creativeStatus |-> "creative_status",
     assignedTo |-> "assigned_to", assignedBy |-> "assigned_by",
     status |-> "status", assignedAt |-> "assigned_at",
     pickedUpAt |-> "picked_up_at", submittedAt |-> "submitted_at",
     rejectedAt |-> "rejected_at", rejectionReason |-> "rejection_reason",
     month |-> "month", iterations |-> "iterations",
     description |-> "description", sourceLink |-> "source_link"]

toSnakeCase(key) == SnakeKeys[key]

\* key.replace(/_([a-z])/g, (_, l) => l.toUpperCase()) on a column name
toCamelCase(column) == CHOOSE k \in DOMAIN SnakeKeys : SnakeKeys[k] = column

\* isSupabaseConfigured(): fixed by the build's environment
isSupabaseConfigured == backend = "supabase"

\* ------------------------------------- schema: row-level security of tasks
\* u is auth.uid(); a comparison with a NULL assigned_to is never true
canSelectTask(u, task) == isAdmin(u) \/ (u # NULL /\ task.assignedTo = u)
canInsertTask(u) == isAdmin(u)
canUpdateTask(u, task) == isAdmin(u) \/ (u # NULL /\ task.assignedTo = u)
canDeleteTask(u) == isAdmin(u)

\* month INTEGER GENERATED ALWAYS AS (EXTRACT(MONTH FROM date) - 1) STORED;
\* the columns created_at and updated_at, which the application never reads,
\* are not part of the task record
generated(row) == [row EXCEPT !.month = getMonth(row.date)]

\* --------------------------------------------- store-async.js: tasks CRUD
\* getTaskById: foundTask is the truthiness of its result (null on any error)
foundTask(ts, id) ==
    /\ hasTask(ts, id)
    /\ isSupabaseConfigured => /\ canSelectTask(session, _getTaskById(ts, id))
                               /\ "read" \notin faults

getTaskById(ts, id) == _getTaskById(ts, id)

\* login: both backends hold the three seed accounts
login(email, password) == _login(email, password)

\* getAdmins: the ids of the admins and superadmins, in stored order from
\* the embedded list and ordered by name from the profiles table
\* getAdmins that leaves the superadmins out
getAdmins_AdminRoleOnly ==
    IF ~isSupabaseConfigured
    THEN SelectSeq([i \in 1..Len(SeedUsers) |-> SeedUsers[i].id],
                   LAMBDA u : getUserById(u).role \in {"admin"})
    ELSE SelectSeq(<<"u2", "u3", "u1">>,
                   LAMBDA u : getUserById(u).role \in {"admin"})

getAdmins ==
    IF ~isSupabaseConfigured
    THEN SelectSeq([i \in 1..Len(SeedUsers) |-> SeedUsers[i].id],
                   LAMBDA u : getUserById(u).role \in {"admin", "superadmin"})
    ELSE SelectSeq(<<"u2", "u3", "u1">>,
                   LAMBDA u : getUserById(u).role \in {"admin", "superadmin"})

\* createNotification: the unread notification it stores; a failed write
\* stores none and is not reported to the caller
createNotification(userId, type, taskId) ==
    IF "notify" \in faults THEN << >>
    ELSE <<[kind |-> "notification", userId |-> userId, type |-> type, taskId |-> taskId,
            isRead |-> FALSE]>>

\* logActivity: the entry it stores under the current user; a failed write
\* stores none
logActivity(action, entityId) ==
    IF "activity" \in faults THEN << >>
    ELSE <<[kind |-> "activity", userId |-> session, type |-> action, taskId |-> entityId]>>

\* a property of the task read before the write is dereferenced
TypeError == "Cannot read properties of null (reading 'slNo')"

\* ------------------------------------------------ writes with one retry
\* error.message of a request that never reached the server, and of a write
\* naming a column the tasks table does not have
FetchError == "TypeError: Failed to fetch"
MissingColumn == "Could not find the 'description' column of 'tasks' in the schema cache"

\* error.message.includes('column'), over the messages above
includesColumn(message) == message = MissingColumn

\* the columns of insertData
InsertColumns == {"date", "client", "type", "reference_creative", "editable_file_shared",
                  "amount", "payment_status", "assigned_to", "assigned_by", "due_date",
                  "description", "source_link", "status", "assigned_at"}

\* the error of one insert or update of tasks that carries these columns:
\* under "schema" the table predates description and source_link, under
\* "write" the request is lost.
writeError(columns) ==
    IF "schema" \in faults /\ columns \cap {"description", "source_link"} # {}
    THEN MissingColumn
    ELSE IF "write" \in faults THEN FetchError ELSE "none"

\* the write requests when every failed write is tried again
writeRequests_RetryAnyError(columns) ==
    LET first == [columns |-> columns, error |-> writeError(columns)]
        stripped == columns \ {"description", "source_link"}
    IN IF first.error # "none"
       THEN <<first, [columns |-> stripped, error |-> writeError(stripped)]>>
       ELSE <<first>>

\* the write requests of addTask / updateTask, in order: the write, and after
\* an error naming a column the same write without description and source_link
writeRequests(columns) ==
    LET first == [columns |-> columns, error |-> writeError(columns)]
        stripped == columns \ {"description", "source_link"}
    IN IF first.error # "none" /\ includesColumn(first.error)
       THEN <<first, [columns |-> stripped, error |-> writeError(stripped)]>>
       ELSE <<first>>

addTask(ts, id, taskData, t) ==
    LET assigned == IF orNull(taskData.assignedTo) # NULL
                    THEN createNotification(taskData.assignedTo, "assigned", id)
                    ELSE << >>
    IN IF ~isSupabaseConfigured THEN Then(_addTask(ts, id, taskData, t), assigned)
       ELSE LET requests == writeRequests(InsertColumns)
                error == requests[Len(requests)].error
            IN IF error # "none" THEN Throw(error, ts)
               ELSE IF ~canInsertTask(session) THEN Throw(RlsDenied, ts)
               ELSE Then(Wrote(Append(ts, generated(newTask(serial + 1, id, taskData, t))), id),
                         assigned \o logActivity("task_created", id))

\* the columns an update writes: the partial's keys in snake_case, less the
\* ones deleted from it
snakeData(data) ==
    LET columns == {toSnakeCase(k) : k \in DOMAIN data}
                       \ {"id", "sl_no", "iterations", "created_at", "month"}
    IN [c \in columns |-> data[toCamelCase(c)]]

updateTask(ts, id, data) ==
    IF ~isSupabaseConfigured THEN _updateTask(ts, id, data)
    ELSE LET sd == snakeData(data)
             requests == writeRequests(DOMAIN sd)
             error == requests[Len(requests)].error
             kept == requests[Len(requests)].columns
             written == [k \in {toCamelCase(c) : c \in kept} |-> sd[toSnakeCase(k)]]
         IN IF error # "none" THEN Throw(error, ts)
            ELSE IF ~hasTask(ts, id) \/ ~canUpdateTask(session, _getTaskById(ts, id))
            THEN Throw(NoRows, ts)
            ELSE Wrote([ts EXCEPT ![findIndex(ts, id)] = generated(written @@ @)], id)

deleteTask(ts, id) ==
    Then(IF ~isSupabaseConfigured THEN _deleteTask(ts, id)
         ELSE Wrote(SelectSeq(ts, LAMBDA t : ~(t.id = id /\ canDeleteTask(session))), id),
         logActivity("task_deleted", id))

\* ------------------------------------- store-async.js: lifecycle actions
\* pickUpTask that logs before it writes
pickUpTask_LogFirst(ts, id, t) ==
    After(logActivity("task_picked_up", id),
          updateTask(ts, id, [status |-> "in_progress", pickedUpAt |-> t]))

pickUpTask(ts, id, t) ==
    LET result == updateTask(ts, id, [status |-> "in_progress", pickedUpAt |-> t])
    IN IF result.err # "none" THEN result
       ELSE Then(result, logActivity("task_picked_up", id))

uploadCompletedCreative(ts, id, creative, t) ==
    updateTask(ts, id, [completedCreative |-> creative, completedCreativeAt |-> t])

\* the notifications of a submitted task: one for each admin, none when the
\* admin lookup fails
notifyAdmins(id) ==
    IF "admins" \in faults THEN << >>
    ELSE LET admins == getAdmins
             RECURSIVE each(_)
             each(i) == IF i > Len(admins) THEN << >>
                        ELSE createNotification(admins[i], "submitted", id) \o each(i + 1)
         IN each(1)

\* submitTask without its completed-creative check
submitTask_Unchecked(ts, id, t) ==
    IF ~foundTask(ts, id) THEN Throw(NotFound, ts)
    ELSE LET result == updateTask(ts, id, [status |-> "submitted", submittedAt |-> t])
         IN IF result.err # "none" THEN result
            ELSE Then(result, notifyAdmins(id) \o logActivity("task_submitted", id))

submitTask(ts, id, t) ==
    IF ~foundTask(ts, id) THEN Throw(NotFound, ts)
    ELSE IF getTaskById(ts, id).completedCreative = NULL THEN Throw(NoCreative, ts)
    ELSE LET result == updateTask(ts, id, [status |-> "submitted", submittedAt |-> t])
         IN IF result.err # "none" THEN result
            ELSE Then(result, notifyAdmins(id) \o logActivity("task_submitted", id))

\* what approveTask and rejectTask do after their updateTask: the freelancer
\* is notified if the task was read, and the activity entry is built from the
\* task that was read
decided(ts, id, result, type, action) ==
    IF result.err # "none" THEN result
    ELSE IF ~foundTask(ts, id) THEN [result EXCEPT !.err = TypeError]
    ELSE Then(result,
              (IF getTaskById(ts, id).assignedTo # NULL
               THEN createNotification(getTaskById(ts, id).assignedTo, type, id)
               ELSE << >>) \o logActivity(action, id))

\* approveTask that takes the approval back when it finds the task approved
approveTask_Toggling(ts, id) ==
    decided(ts, id,
            updateTask(ts, id, IF hasTask(ts, id) /\ _getTaskById(ts, id).status = "approved"
                               THEN [status |-> "submitted", creativeStatus |-> "Pending"]
                               ELSE [status |-> "approved", creativeStatus |-> "Approved"]),
            "approved", "task_approved")

approveTask(ts, id) ==
    decided(ts, id,
            updateTask(ts, id, [status |-> "approved", creativeStatus |-> "Approved"]),
            "approved", "task_approved")

rejectTask(ts, id, reason, t) ==
    decided(ts, id,
            updateTask(ts, id, [status |-> "rejected",
                                creativeStatus |-> "Rejected",
                                rejectedAt |-> t,
                                rejectionReason |-> orEmpty(reason)]),
            "rejected", "task_rejected")

\* what requestIteration does after its writes: the freelancer is notified,
\* and the remote branch logs the request
requested(id, result, assignedTo) ==
    IF result.err # "none" THEN result
    ELSE Then(result,
              (IF assignedTo # NULL THEN createNotification(assignedTo, "iteration", id)
               ELSE << >>)
              \o (IF isSupabaseConfigured THEN logActivity("iteration_requested", id)
                  ELSE << >>))

\* requestIteration that numbers every iteration 1
requestIteration_NumberOne(ts, id, reason, blame, t) ==
    IF ~isSupabaseConfigured
    THEN requested(id, _requestIteration(ts, id, reason, blame, t),
                   IF hasTask(ts, id) THEN _getTaskById(ts, id).assignedTo ELSE NULL)
    ELSE IF ~foundTask(ts, id) THEN Throw(NotFound, ts)
    ELSE LET task == getTaskById(ts, id)
             inserted == [ts EXCEPT ![findIndex(ts, id)].iterations =
                             Append(@, [newIteration(task, reason, blame, t)
                                           EXCEPT !.number = 1])]
         IN requested(id,
                      After(<<TaskWrite(id)>>,
                            updateTask(inserted, id, [status |-> "iteration",
                                                      creativeStatus |-> "Iteration",
                                                      pickedUpAt |-> NoTime,
                                                      submittedAt |-> NoTime])),
                      task.assignedTo)

\* requestIteration: the iteration row is inserted, then the task is updated
requestIteration(ts, id, reason, blame, t) ==
    IF ~isSupabaseConfigured
    THEN requested(id, _requestIteration(ts, id, reason, blame, t),
                   IF hasTask(ts, id) THEN _getTaskById(ts, id).assignedTo ELSE NULL)
    ELSE IF ~foundTask(ts, id) THEN Throw(NotFound, ts)
    ELSE LET task == getTaskById(ts, id)
             inserted == [ts EXCEPT ![findIndex(ts, id)].iterations =
                             Append(@, newIteration(task, reason, blame, t))]
         IN requested(id,
                      After(<<TaskWrite(id)>>,
                            updateTask(inserted, id, [status |-> "iteration",
                                                      creativeStatus |-> "Iteration",
                                                      pickedUpAt |-> NoTime,
                                                      submittedAt |-> NoTime])),
                      task.assignedTo)

\* resolveIteration: the open iteration with the highest number, if one is
\* visible to the caller
resolveIteration(ts, id, t) ==
    IF ~isSupabaseConfigured THEN _resolveIteration(ts, id, t)
    ELSE Then(IF ~hasTask(ts, id) THEN Ok(ts)
              ELSE LET task == _getTaskById(ts, id)
                       its == task.iterations
                       open == {k \in 1..Len(its) : /\ its[k].resolvedAt = NoTime
                                                    /\ canSelectTask(session, task)}
                   IN IF open = {} THEN Ok(ts)
                      ELSE LET k == CHOOSE k \in open :
                                       \A j \in open : its[j].number <= its[k].number
                           IN Wrote([ts EXCEPT ![findIndex(ts, id)].iterations[k].resolvedAt = t],
                                    id),
              logActivity("iteration_resolved", id))

\* ------------------------------------------------------- table.js, kanban.js
\* handlePickUp: await resolveIteration(id); await pickUpTask(id)
handlePickUp(ts, id, t) ==
    LET r == resolveIteration(ts, id, t)
    IN IF r.err # "none" THEN r ELSE After(r.effects, pickUpTask(r.tasks, id, t))

\* renderKanban: an admin sees every card, a freelancer the cards assigned to them
cardShown(u, task) == isAdmin(u) \/ task.assignedTo = u

\* the drop handler of a kanban column
kanbanDrop(ts, id, oldStatus, newStatus, t) ==
    IF newStatus = "in_progress" /\ oldStatus \in {"assigned", "iteration"}
    THEN handlePickUp(ts, id, t)
    ELSE IF newStatus = "approved" /\ oldStatus = "submitted"
    THEN approveTask(ts, id)
    ELSE updateTask(ts, id, [status |-> newStatus])

\* ----------------------------------------------------------------- actions
\* a tab with no call in flight
Idle == [pc |-> "idle", id |-> 0, number |-> 0, reason |-> "", blame |-> "",
         assignedTo |-> NULL]

\* let _cachedUser = undefined: not loaded yet
UNDEFINED == "undefined"

\* no getCurrentUser and no logout of the page is between two awaits
NoCalls == [getCurrentUser |-> "idle", user |-> NULL, logout |-> "idle"]

Init ==
    /\ tasks = << >>
    /\ issued = << >>
    /\ serial = 0
    /\ now = 1
    /\ session = NULL
    /\ backend \in Backends
    /\ last = [op |-> "init", id |-> 0, err |-> "none", effects |-> << >>]
    /\ calls = [c \in Tabs |-> Idle]
    /\ faults = {}
    /\ mirror = << >>
    /\ selected = << >>
    /\ toast = [type |-> "none", count |-> 0]
    /\ users = SeedUsers
    /\ expiresAt = NoTime
    /\ _cachedUser = UNDEFINED
    /\ awaiting = NoCalls
    /\ authUsers = {[id |-> SeedUsers[i].id, email |-> SeedUsers[i].email] :
                        i \in 1..Len(SeedUsers)}

\* the outcome r of operation op on task id becomes the state
Done(op, id, r) ==
    /\ tasks' = r.tasks
    /\ last' = [op |-> op, id |-> id, err |-> r.err, effects |-> r.effects]

Tick ==
    /\ now < MaxNow
    /\ now' = now + 1
    /\ UNCHANGED <<tasks, issued, serial, session, backend, last>>
    /\ UNCHANGED aside

\* the login form: a failed login leaves the stored session as it is
Login(email, password) ==
    /\ session = NULL
    /\ session' = IF login(email, password) = NULL THEN session
                  ELSE login(email, password)
    /\ UNCHANGED <<tasks, issued, serial, now, backend, last>>
    /\ UNCHANGED aside

Logout ==
    /\ session # NULL
    /\ session' = NULL
    /\ UNCHANGED <<tasks, issued, serial, now, backend, last>>
    /\ UNCHANGED aside

\* add-task modal, save: addTask({..., assignedBy: user.id}); an insert takes
\* the next value of the sl_no sequence whether or not the row is accepted
AddTask(date, assignedTo) ==
    /\ session # NULL
    /\ Len(tasks) < MaxTasks
    /\ Len(issued) < MaxCreated
    /\ serial < MaxCreated
    /\ LET id == Len(issued) + 1
           r == addTask(tasks, id, [date |-> date, assignedTo |-> assignedTo,
                                    assignedBy |-> session], now)
       IN /\ Done("addTask", id, r)
          /\ issued' = IF r.err = "none"
                       THEN Append(issued, r.tasks[Len(r.tasks)].slNo)
                       ELSE issued
    /\ serial' = IF isSupabaseConfigured THEN serial + 1 ELSE serial
    /\ UNCHANGED <<now, session, backend>>
    /\ UNCHANGED aside

\* edit-task modal, save: updateTask(id, {date, assignedTo, month: getMonth(date)})
EditTask(id, date, assignedTo) ==
    /\ session # NULL
    /\ hasTask(tasks, id)
    /\ Done("editTask", id, updateTask(tasks, id,
            [date |-> date, assignedTo |-> orNull(assignedTo), month |-> getMonth(date)]))
    /\ UNCHANGED <<issued, serial, now, session, backend>>
    /\ UNCHANGED aside

\* a direct updateTask(id, data) call with the partial record data
UpdateTask(id, data) ==
    /\ session # NULL
    /\ Done("updateTask", id, updateTask(tasks, id, data))
    /\ UNCHANGED <<issued, serial, now, session, backend>>
    /\ UNCHANGED aside

DeleteTask(id) ==
    /\ session # NULL
    /\ Done("deleteTask", id, deleteTask(tasks, id))
    /\ UNCHANGED <<issued, serial, now, session, backend>>
    /\ UNCHANGED aside

PickUpTask(id) ==
    /\ session # NULL
    /\ Done("pickUpTask", id, pickUpTask(tasks, id, now))
    /\ UNCHANGED <<issued, serial, now, session, backend>>
    /\ UNCHANGED aside

\* upload-creative modal, save: a new creative, or null when it was removed
UploadCompletedCreative(id, creative) ==
    /\ session # NULL
    /\ Done("uploadCompletedCreative", id, uploadCompletedCreative(tasks, id, creative, now))
    /\ UNCHANGED <<issued, serial, now, session, backend>>
    /\ UNCHANGED aside

SubmitTask(id) ==
    /\ session # NULL
    /\ Done("submitTask", id, submitTask(tasks, id, now))
    /\ UNCHANGED <<issued, serial, now, session, backend>>
    /\ UNCHANGED aside

\* a direct call of the embedded store's own submitTask
StoreSubmitTask(id) ==
    /\ session # NULL
    /\ ~isSupabaseConfigured
    /\ Done("_submitTask", id, _submitTask(tasks, id, now))
    /\ UNCHANGED <<issued, serial, now, session, backend>>
    /\ UNCHANGED aside

ApproveTask(id) ==
    /\ session # NULL
    /\ Done("approveTask", id, approveTask(tasks, id))
    /\ UNCHANGED <<issued, serial, now, session, backend>>
    /\ UNCHANGED aside

RejectTask(id, reason) ==
    /\ session # NULL
    /\ Done("rejectTask", id, rejectTask(tasks, id, reason, now))
    /\ UNCHANGED <<issued, serial, now, session, backend>>
    /\ UNCHANGED aside

RequestIteration(id, reason, blame) ==
    /\ session # NULL
    /\ hasTask(tasks, id) => Len(_getTaskById(tasks, id).iterations) < MaxIter
    /\ Done("requestIteration", id, requestIteration(tasks, id, reason, blame, now))
    /\ UNCHANGED <<issued, serial, now, session, backend>>
    /\ UNCHANGED aside

ResolveIteration(id) ==
    /\ session # NULL
    /\ Done("resolveIteration", id, resolveIteration(tasks, id, now))
    /\ UNCHANGED <<issued, serial, now, session, backend>>
    /\ UNCHANGED aside

HandlePickUp(id) ==
    /\ session # NULL
    /\ Done("handlePickUp", id, handlePickUp(tasks, id, now))
    /\ UNCHANGED <<issued, serial, now, session, backend>>
    /\ UNCHANGED aside

KanbanDrop(id, newStatus) ==
    /\ session # NULL
    /\ hasTask(tasks, id)
    /\ cardShown(session, _getTaskById(tasks, id))
    /\ newStatus # _getTaskById(tasks, id).status
    /\ Done("kanbanDrop", id,
            kanbanDrop(tasks, id, _getTaskById(tasks, id).status, newStatus, now))
    /\ UNCHANGED <<issued, serial, now, session, backend>>
    /\ UNCHANGED aside

\* ---------------------------------------------------------- specifications
\* Spec: the lifecycle engine under one admin session at one clock reading.
\* Every lifecycle operation and handler runs on the first task created and
\* on an id that is never created, beside bystander tasks.
Missing == MaxCreated + 1
LifeIds == {1, Missing}

NextLife ==
    \/ \E id \in LifeIds : PickUpTask(id)
    \/ \E id \in LifeIds, c \in Creatives \cup {NULL} : UploadCompletedCreative(id, c)
    \/ \E id \in LifeIds : SubmitTask(id)
    \/ \E id \in LifeIds : StoreSubmitTask(id)
    \/ \E id \in LifeIds : ApproveTask(id)
    \/ \E id \in LifeIds : RejectTask(id, "")
    \/ \E id \in LifeIds : RequestIteration(id, "color off", "freelancer")
    \/ \E id \in LifeIds : ResolveIteration(id)
    \/ \E id \in LifeIds : HandlePickUp(id)
    \/ \E id \in LifeIds, st \in KANBAN_COLUMNS : KanbanDrop(id, st)

Next ==
    \/ Login("admin@tracker.com", "admin123")
    \/ AddTask(1, "u3")
    \/ NextLife

Spec == Init /\ [][Next]_vars

\* SpecClock: the iteration operations, with every reason and blame, while
\* the clock advances.
NextClock ==
    \/ Tick
    \/ Login("admin@tracker.com", "admin123")
    \/ AddTask(1, "u3")
    \/ \E id \in LifeIds, reason \in Reasons, blame \in Blames :
          RequestIteration(id, reason, blame)
    \/ \E id \in LifeIds : ResolveIteration(id)
    \/ \E id \in LifeIds : HandlePickUp(id)

SpecClock == Init /\ [][NextClock]_vars

\* SpecCrud: task creation, editing, direct updates and deletion, with every
\* task data variant, under one admin session.
Partials == {[slNo |-> MaxCreated, date |-> 1], [month |-> 1, date |-> 1], [date |-> 2]}

NextCrud ==
    \/ Login("admin@tracker.com", "admin123")
    \/ \E d \in Dates, a \in {""} \cup getFreelancers : AddTask(d, a)
    \/ \E id \in TaskIds, d \in Dates, a \in {""} \cup getFreelancers : EditTask(id, d, a)
    \/ \E id \in TaskIds, data \in Partials : UpdateTask(id, data)
    \/ \E id \in TaskIds : DeleteTask(id)

SpecCrud == Init /\ [][NextCrud]_vars

\* SpecAuth: sessions of an admin and of a freelancer, one after the other;
\* the operations run on the first task.
AuthUsers == {2, 3}

NextAuth ==
    \/ \E i \in AuthUsers, pw \in Passwords : Login(SeedUsers[i].email, pw)
    \/ Logout
    \/ \E a \in {""} \cup getFreelancers : AddTask(1, a)
    \/ DeleteTask(1)
    \/ HandlePickUp(1)
    \/ UploadCompletedCreative(1, "img1")
    \/ SubmitTask(1)
    \/ ApproveTask(1)
    \/ RejectTask(1, "")
    \/ RequestIteration(1, "color off", "freelancer")
    \/ \E st \in KANBAN_COLUMNS : KanbanDrop(1, st)

SpecAuth == Init /\ [][NextAuth]_vars

\* ------------------------------------------------------------------ claims
\* the transitions of the lifecycle state machine
LifecycleEdges ==
    { <<"assigned", "in_progress">>, <<"iteration", "in_progress">>,
      <<"in_progress", "submitted">>, <<"submitted", "approved">>,
      <<"submitted", "rejected">>, <<"submitted", "iteration">> }

\* the tasks of a store that carry this id (at most one)
Present(ts, id) == {i \in 1..Len(ts) : ts[i].id = id}

\* the number of iterations of a list with resolvedAt = null
OpenCount(its) == Cardinality({k \in 1..Len(its) : its[k].resolvedAt = NoTime})

\* every task but the one with this id is the same in both stores
OthersSame(ts, ts2, id) ==
    /\ Len(ts2) = Len(ts)
    /\ \A i \in 1..Len(ts) : ts[i].id # id => ts2[i] = ts[i]

\* C1: in every step, a task's status either stays or moves along one of the
\* six edges of the lifecycle state machine.
C1_StatusFollowsEdges ==
    [][\A i \in 1..Len(tasks) : \A j \in Present(tasks', tasks[i].id) :
          \/ tasks'[j].status = tasks[i].status
          \/ <<tasks[i].status, tasks'[j].status>> \in LifecycleEdges]_vars

\* C2: once a task is approved or rejected, no step changes its status.
C2_TerminalStatusStays ==
    [][\A i \in 1..Len(tasks) : \A j \in Present(tasks', tasks[i].id) :
          tasks[i].status \in {"approved", "rejected"}
              => tasks'[j].status = tasks[i].status]_vars

\* C3: submitTask on an existing task throws the validation error exactly
\* when the task has no completed creative; a failed call leaves the store as
\* it was, a successful one leaves the task submitted with submittedAt set to
\* the time of the call and every other task as it was.
C3_SubmitContract ==
    [][\A id \in LifeIds :
          ( /\ hasTask(tasks, id)
            /\ last'.id = id
            /\ SubmitTask(id) \/ StoreSubmitTask(id) ) =>
          /\ (last'.err = NoCreative) <=> (_getTaskById(tasks, id).completedCreative = NULL)
          /\ last'.err \in {"none", NoCreative}
          /\ last'.err # "none" => tasks' = tasks
          /\ last'.err = "none" =>
                /\ hasTask(tasks', id)
                /\ _getTaskById(tasks', id).status = "submitted"
                /\ _getTaskById(tasks', id).submittedAt = now
                /\ _getTaskById(tasks', id).submittedAt # NoTime
                /\ OthersSame(tasks, tasks', id)]_vars

\* C3 witness: submitTask has just failed with the validation error on an
\* existing in-progress task that has no completed creative.
C3_Witness ==
    /\ last.op \in {"submitTask", "_submitTask"}
    /\ last.err = NoCreative
    /\ hasTask(tasks, last.id)
    /\ _getTaskById(tasks, last.id).status = "in_progress"
    /\ _getTaskById(tasks, last.id).completedCreative = NULL

\* C4: every submitted task has a completed creative.
C4_SubmittedHasCreative ==
    \A i \in 1..Len(tasks) :
        tasks[i].status = "submitted" => tasks[i].completedCreative # NULL

\* C8: requestIteration on an existing task appends exactly one iteration,
\* numbered previous count + 1 and open, sets status to iteration, clears
\* pickedUpAt and submittedAt, and leaves the earlier iterations and every
\* other task as they were.
C8_RequestIterationContract ==
    [][\A id \in LifeIds :
          ( /\ hasTask(tasks, id)
            /\ last'.op = "requestIteration"
            /\ RequestIteration(id, "color off", "freelancer") ) =>
             LET before == _getTaskById(tasks, id)
                 after == _getTaskById(tasks', id)
                 n == Len(before.iterations)
             IN /\ hasTask(tasks', id)
                /\ Len(after.iterations) = n + 1
                /\ after.iterations[n + 1].number = n + 1
                /\ after.iterations[n + 1].resolvedAt = NoTime
                /\ SubSeq(after.iterations, 1, n) = before.iterations
                /\ after.status = "iteration"
                /\ after.pickedUpAt = NoTime
                /\ after.submittedAt = NoTime
                /\ OthersSame(tasks, tasks', id)]_vars

\* C8 witness: against the remote tables, a second iteration has just been
\* requested on a task that has a completed creative and a resolved first
\* iteration, beside another task.
C8_Witness ==
    /\ isSupabaseConfigured
    /\ last.op = "requestIteration"
    /\ last.err = "none"
    /\ Len(tasks) = 2
    /\ hasTask(tasks, last.id)
    /\ Len(_getTaskById(tasks, last.id).iterations) = 2
    /\ _getTaskById(tasks, last.id).iterations[1].resolvedAt # NoTime
    /\ _getTaskById(tasks, last.id).completedCreative # NULL

\* C9: the pick-up sequence (handlePickUp, or a kanban drop into in_progress
\* from assigned or iteration) on a task with an open iteration leaves
\* exactly one open iteration fewer, status in_progress and pickedUpAt set.
C9_PickUpResolvesOne ==
    [][\A id \in LifeIds :
          ( /\ hasTask(tasks, id)
            /\ OpenCount(_getTaskById(tasks, id).iterations) > 0
            /\ last'.id = id
            /\ \/ HandlePickUp(id)
               \/ /\ KanbanDrop(id, "in_progress")
                  /\ _getTaskById(tasks, id).status \in {"assigned", "iteration"} ) =>
             /\ hasTask(tasks', id)
             /\ OpenCount(_getTaskById(tasks', id).iterations)
                    = OpenCount(_getTaskById(tasks, id).iterations) - 1
             /\ _getTaskById(tasks', id).status = "in_progress"
             /\ _getTaskById(tasks', id).pickedUpAt # NoTime]_vars

\* C10: resolveIteration stamps exactly the highest-numbered open iteration
\* and nothing else; with no open iteration it changes no iteration.
C10_ResolveOnlyHighestOpen ==
    [][\A id \in LifeIds :
          ( /\ hasTask(tasks, id)
            /\ last'.op = "resolveIteration"
            /\ ResolveIteration(id) ) =>
          LET its == _getTaskById(tasks, id).iterations
              open == {k \in 1..Len(its) : its[k].resolvedAt = NoTime}
          IN /\ hasTask(tasks', id)
             /\ Len(_getTaskById(tasks', id).iterations) = Len(its)
             /\ \A k \in 1..Len(its) :
                   _getTaskById(tasks', id).iterations[k] =
                       IF open # {} /\ k = Max(open)
                       THEN [its[k] EXCEPT !.resolvedAt = now]
                       ELSE its[k]]_vars

\* C5: the sequential numbers handed out by addTask, in call order, are
\* strictly increasing, so none is handed out twice.
C5_SlNoStrictlyIncreasing ==
    \A i, j \in 1..Len(issued) : i < j => issued[i] < issued[j]

\* C6: updateTask, whatever partial record it is given, leaves the task's
\* sequential number as it was and its month equal to the month of its date.
C6_UpdateKeepsSlNoAndMonth ==
    [][\A id \in TaskIds : \A data \in Partials :
          (UpdateTask(id, data) /\ hasTask(tasks, id)) =>
             /\ hasTask(tasks', id)
             /\ _getTaskById(tasks', id).slNo = _getTaskById(tasks, id).slNo
             /\ _getTaskById(tasks', id).month = getMonth(_getTaskById(tasks', id).date)]_vars

\* C7: while the session user is a freelancer, a step changes the task store
\* only if it is a pick-up, an upload or a submit of a task assigned to that
\* freelancer.
C7_FreelancerOnlyOwnWork ==
    [][(session # NULL /\ getUserById(session).role = "freelancer" /\ tasks' # tasks) =>
          \E id \in TaskIds :
             /\ hasTask(tasks, id)
             /\ _getTaskById(tasks, id).assignedTo = session
             /\ \/ PickUpTask(id)
                \/ HandlePickUp(id)
                \/ SubmitTask(id)
                \/ \E c \in Creatives \cup {NULL} : UploadCompletedCreative(id, c)]_vars

\* C11: every task has at most one iteration whose resolvedAt is null.
C11_AtMostOneOpenIteration ==
    \A i \in 1..Len(tasks) : OpenCount(tasks[i].iterations) <= 1

\* ------------------------------------------ interleaved remote requestIteration
\* requestIteration against the remote tables, one await at a time, as two
\* tabs of the same session run it.
FkViolation == "insert or update on table \"iterations\" violates foreign key constraint"

\* first await: getTaskById; iterNumber = iterations.length + 1
RequestIterationRead(c, id, reason, blame) ==
    /\ session # NULL
    /\ isSupabaseConfigured
    /\ calls[c].pc = "idle"
    /\ IF ~foundTask(tasks, id)
       THEN /\ Done("requestIteration", id, Throw(NotFound, tasks))
            /\ UNCHANGED calls
       ELSE /\ Len(getTaskById(tasks, id).iterations) < MaxIter
            /\ calls' = [calls EXCEPT ![c] =
                            [pc |-> "insert", id |-> id,
                             number |-> Len(getTaskById(tasks, id).iterations) + 1,
                             reason |-> reason, blame |-> blame,
                             assignedTo |-> getTaskById(tasks, id).assignedTo]]
            /\ UNCHANGED <<tasks, last>>
    /\ UNCHANGED <<issued, serial, now, session, backend, faults, mirror, page, users, expiresAt, _cachedUser, awaiting, authUsers>>

\* second await: the iteration row is inserted with the number computed before
RequestIterationInsert(c) ==
    /\ calls[c].pc = "insert"
    /\ IF ~hasTask(tasks, calls[c].id)
       THEN /\ Done("requestIteration", calls[c].id, Throw(FkViolation, tasks))
            /\ calls' = [calls EXCEPT ![c] = Idle]
       ELSE /\ tasks' = [tasks EXCEPT ![findIndex(tasks, calls[c].id)].iterations =
                           Append(@, [number |-> calls[c].number,
                                      reason |-> calls[c].reason,
                                      blame |-> calls[c].blame,
                                      requestedAt |-> now,
                                      resolvedAt |-> NoTime])]
            /\ calls' = [calls EXCEPT ![c].pc = "update"]
            /\ UNCHANGED last
    /\ UNCHANGED <<issued, serial, now, session, backend, faults, mirror, page, users, expiresAt, _cachedUser, awaiting, authUsers>>

\* third await: updateTask sets the status and clears the timestamps
RequestIterationUpdate(c) ==
    /\ calls[c].pc = "update"
    /\ Done("requestIteration", calls[c].id,
            requested(calls[c].id,
                      After(<<TaskWrite(calls[c].id)>>,
                            updateTask(tasks, calls[c].id, [status |-> "iteration",
                                                            creativeStatus |-> "Iteration",
                                                            pickedUpAt |-> NoTime,
                                                            submittedAt |-> NoTime])),
                      calls[c].assignedTo))
    /\ calls' = [calls EXCEPT ![c] = Idle]
    /\ UNCHANGED <<issued, serial, now, session, backend, faults, mirror, page, users, expiresAt, _cachedUser, awaiting, authUsers>>

\* SpecRace: two tabs request iterations on the first task; against the
\* embedded store a call runs to its end without an await in between.
NextRace ==
    \/ Tick
    \/ Login("admin@tracker.com", "admin123")
    \/ AddTask(1, "u3")
    \/ \E id \in LifeIds : RequestIteration(id, "color off", "freelancer")
    \/ \E c \in Tabs, id \in LifeIds : RequestIterationRead(c, id, "color off", "freelancer")
    \/ \E c \in Tabs : RequestIterationInsert(c)
    \/ \E c \in Tabs : RequestIterationUpdate(c)
    \/ \E id \in LifeIds : HandlePickUp(id)

SpecRace == Init /\ [][NextRace]_vars

\* C12: the iterations of every task, in order of creation, are numbered
\* 1, 2, ..., n.
C12_IterationNumbersInOrder ==
    \A i \in 1..Len(tasks) :
        \A k \in 1..Len(tasks[i].iterations) : tasks[i].iterations[k].number = k

\* ------------------------------------------------ failing side requests
\* a storage request starts or stops failing
SetFaults(F) ==
    /\ faults # F
    /\ faults' = F
    /\ UNCHANGED <<tasks, issued, serial, now, session, backend, last, calls, mirror, page, users, expiresAt, _cachedUser, awaiting, authUsers>>

\* the failures taken one at a time, and all at once
FaultSets == {{}, {"read"}, {"notify"}, {"admins"}, {"activity"}, Faults}

\* SpecEffects: the lifecycle operations on the first task, by an admin or by
\* the freelancer it is assigned to, while side requests fail.
NextEffects ==
    \/ \E F \in FaultSets : SetFaults(F)
    \/ Login("admin@tracker.com", "admin123")
    \/ Login("safvan@tracker.com", "freelancer123")
    \/ Logout
    \/ AddTask(1, "u3")
    \/ PickUpTask(1)
    \/ UploadCompletedCreative(1, "img1")
    \/ SubmitTask(1)
    \/ ApproveTask(1)
    \/ RejectTask(1, "")
    \/ RequestIteration(1, "color off", "freelancer")

SpecEffects == Init /\ [][NextEffects]_vars

\* the operations that notify or log after their write
LifecycleOps == {"submitTask", "approveTask", "rejectTask", "requestIteration",
                 "pickUpTask", "addTask"}

\* the kinds of write among the writes es of a call
Kinds(es) == {es[i].kind : i \in 1..Len(es)}

\* C13: a lifecycle operation whose primary write succeeded returns success,
\* whichever of the notification write, the admin lookup, the activity-log
\* write and the preceding read of the task failed.
C13_SideFailuresNotReported ==
    (last.op \in LifecycleOps /\ "task" \in Kinds(last.effects)) => last.err = "none"

\* the positions of the notifications and activity entries among the writes es
SideWrites(es) == {i \in 1..Len(es) : es[i].kind \in {"notification", "activity"}}

\* C14: within one lifecycle operation every notification and every activity
\* entry is written after a task write of that operation, and an operation
\* that fails writes neither.
C14_SideWritesFollowPrimary ==
    last.op \in LifecycleOps =>
        /\ \A i \in SideWrites(last.effects) :
              \E j \in 1..(i - 1) : last.effects[j].kind = "task"
        /\ last.err # "none" => SideWrites(last.effects) = {}

\* an approval that wrote the task, then the notification, then the activity entry
C14_Witness ==
    /\ last.op = "approveTask"
    /\ last.err = "none"
    /\ Len(last.effects) = 3
    /\ last.effects[1].kind = "task"
    /\ last.effects[2].kind = "notification"
    /\ last.effects[3].kind = "activity"

\* the users a call's writes es notified of the submission of task id
Notified(es, id, u) ==
    {i \in 1..Len(es) : /\ es[i].kind = "notification"
                        /\ es[i].type = "submitted"
                        /\ es[i].taskId = id
                        /\ es[i].userId = u
                        /\ ~es[i].isRead}

\* C16: a successful submitTask whose side requests do not fail writes exactly
\* one unread notification of type submitted, referencing the task, for every
\* admin and superadmin, and none for a freelancer.
C16_SubmitNotifiesEveryAdmin ==
    [][(/\ last'.op = "submitTask"
        /\ faults = {}
        /\ SubmitTask(1)
        /\ last'.err = "none")
       => \A u \in UserIds :
             Cardinality(Notified(last'.effects, 1, u))
                 = IF getUserById(u).role \in {"admin", "superadmin"} THEN 1 ELSE 0]_vars

\* the freelancer submitted the task and both admins were notified
C16_Witness ==
    /\ last.op = "submitTask"
    /\ last.err = "none"
    /\ session = "u3"
    /\ Notified(last.effects, 1, "u1") # {}
    /\ Notified(last.effects, 1, "u2") # {}

\* --------------------------------------------- one call, both stores
\* The same call is issued against the store of the configured backend and
\* against the embedded store, which starts as empty as the other.
AddTaskBoth(date, assignedTo) ==
    /\ session # NULL
    /\ Len(tasks) < MaxTasks
    /\ Len(mirror) < MaxTasks
    /\ Len(issued) < MaxCreated
    /\ serial < MaxCreated
    /\ LET id == Len(issued) + 1
           taskData == [date |-> date, assignedTo |-> assignedTo, assignedBy |-> session]
           r == addTask(tasks, id, taskData, now)
       IN /\ Done("addTask", id, r)
          /\ mirror' = _addTask(mirror, id, taskData, now).tasks
          /\ issued' = IF r.err = "none"
                       THEN Append(issued, r.tasks[Len(r.tasks)].slNo)
                       ELSE issued
    /\ serial' = IF isSupabaseConfigured THEN serial + 1 ELSE serial
    /\ UNCHANGED <<now, session, backend, calls, faults, page, users, expiresAt, _cachedUser, awaiting, authUsers>>

UpdateTaskBoth(id, data) ==
    /\ session # NULL
    /\ Done("updateTask", id, updateTask(tasks, id, data))
    /\ mirror' = _updateTask(mirror, id, data).tasks
    /\ UNCHANGED <<issued, serial, now, session, backend, calls, faults, page, users, expiresAt, _cachedUser, awaiting, authUsers>>

DeleteTaskBoth(id) ==
    /\ session # NULL
    /\ Done("deleteTask", id, deleteTask(tasks, id))
    /\ mirror' = _deleteTask(mirror, id).tasks
    /\ UNCHANGED <<issued, serial, now, session, backend, calls, faults, page, users, expiresAt, _cachedUser, awaiting, authUsers>>

RequestIterationBoth(id, reason, blame) ==
    /\ session # NULL
    /\ hasTask(tasks, id) => Len(_getTaskById(tasks, id).iterations) < MaxIter
    /\ hasTask(mirror, id) => Len(_getTaskById(mirror, id).iterations) < MaxIter
    /\ Done("requestIteration", id, requestIteration(tasks, id, reason, blame, now))
    /\ mirror' = _requestIteration(mirror, id, reason, blame, now).tasks
    /\ UNCHANGED <<issued, serial, now, session, backend, calls, faults, page, users, expiresAt, _cachedUser, awaiting, authUsers>>

ResolveIterationBoth(id) ==
    /\ session # NULL
    /\ Done("resolveIteration", id, resolveIteration(tasks, id, now))
    /\ mirror' = _resolveIteration(mirror, id, now).tasks
    /\ UNCHANGED <<issued, serial, now, session, backend, calls, faults, page, users, expiresAt, _cachedUser, awaiting, authUsers>>

\* SpecBoth: an admin creates, updates and deletes tasks and requests and
\* resolves iterations, each call on both stores.
NextBoth ==
    \/ Login("admin@tracker.com", "admin123")
    \/ AddTaskBoth(1, "u3")
    \/ \E id \in {1, 2}, data \in Partials : UpdateTaskBoth(id, data)
    \/ \E id \in {1, 2} : DeleteTaskBoth(id)
    \/ \E id \in {1, 2} : RequestIterationBoth(id, "color off", "freelancer")
    \/ \E id \in {1, 2} : ResolveIterationBoth(id)

SpecBoth == Init /\ [][NextBoth]_vars

\* what is observable of a store: of every task its sequential number, its
\* status, which timestamps are set, and its iterations' numbers and whether
\* each is open
Observable(ts) ==
    {[id |-> ts[i].id,
      slNo |-> ts[i].slNo,
      status |-> ts[i].status,
      pickedUp |-> ts[i].pickedUpAt # NoTime,
      submitted |-> ts[i].submittedAt # NoTime,
      rejected |-> ts[i].rejectedAt # NoTime,
      iterations |-> [k \in 1..Len(ts[i].iterations) |->
                         [number |-> ts[i].iterations[k].number,
                          open |-> ts[i].iterations[k].resolvedAt = NoTime]]]
     : i \in 1..Len(ts)}

\* C15: after each step of a sequence of calls, the store of the configured
\* backend and the embedded store given the same calls show the same
\* observable task state.
C15_BackendsAgree == Observable(tasks) = Observable(mirror)

\* ------------------------------------------------------ bulk operations
\* the message of a request that did not reach the remote service

\* toggleTaskSelection: the checkbox of a row shown to an admin
ToggleTaskSelection(id) ==
    /\ isAdmin(session)
    /\ hasTask(tasks, id)
    /\ selected' = IF \E i \in 1..Len(selected) : selected[i] = id
                   THEN SelectSeq(selected, LAMBDA sid : sid # id)
                   ELSE Append(selected, id)
    /\ UNCHANGED <<tasks, issued, serial, now, session, backend, last, calls, faults,
                   mirror, toast, users, expiresAt, _cachedUser, awaiting, authUsers>>

\* the loop of handleBulkApprove from the store ts over the ids left, count
\* tasks approved so far; the requests for the ids in failing do not reach
\* the remote service
RECURSIVE bulkApprove(_, _, _, _)
\* the loop counting every selected task it finds, approved or not
bulkApprove_CountFound(ts, ids, failing, count) ==
    IF ids = << >> THEN [err |-> "none", tasks |-> ts, count |-> count]
    ELSE LET id == Head(ids)
         IN IF foundTask(ts, id) /\ getTaskById(ts, id).status = "submitted"
            THEN LET r == IF isSupabaseConfigured /\ id \in failing
                          THEN Throw(FetchError, ts)
                          ELSE approveTask(ts, id)
                 IN IF r.err # "none"
                    THEN [err |-> r.err, tasks |-> r.tasks, count |-> count]
                    ELSE bulkApprove(r.tasks, Tail(ids), failing, count + 1)
            ELSE bulkApprove(ts, Tail(ids), failing, count + 1)

bulkApprove(ts, ids, failing, count) ==
    IF ids = << >> THEN [err |-> "none", tasks |-> ts, count |-> count]
    ELSE LET id == Head(ids)
         IN IF foundTask(ts, id) /\ getTaskById(ts, id).status = "submitted"
            THEN LET r == IF isSupabaseConfigured /\ id \in failing
                          THEN Throw(FetchError, ts)
                          ELSE approveTask(ts, id)
                 IN IF r.err # "none"
                    THEN [err |-> r.err, tasks |-> r.tasks, count |-> count]
                    ELSE bulkApprove(r.tasks, Tail(ids), failing, count + 1)
            ELSE bulkApprove(ts, Tail(ids), failing, count)

\* the loop of handleBulkDelete
RECURSIVE bulkDelete(_, _, _)
bulkDelete(ts, ids, failing) ==
    IF ids = << >> THEN [err |-> "none", tasks |-> ts]
    ELSE LET r == IF isSupabaseConfigured /\ Head(ids) \in failing
                  THEN Throw(FetchError, ts)
                  ELSE deleteTask(ts, Head(ids))
         IN IF r.err # "none" THEN [err |-> r.err, tasks |-> r.tasks]
            ELSE bulkDelete(r.tasks, Tail(ids), failing)

\* handleBulkApprove: the bar is shown to an admin with a selection
HandleBulkApprove(failing) ==
    /\ isAdmin(session)
    /\ selected # << >>
    /\ LET r == bulkApprove(tasks, selected, failing, 0)
       IN /\ tasks' = r.tasks
          /\ last' = [op |-> "handleBulkApprove", id |-> 0, err |-> r.err, effects |-> << >>]
          /\ selected' = IF r.err = "none" THEN << >> ELSE selected
          /\ toast' = IF r.err = "none" THEN [type |-> "approved", count |-> r.count]
                      ELSE toast
    /\ UNCHANGED <<issued, serial, now, session, backend, calls, faults, mirror, users, expiresAt, _cachedUser, awaiting, authUsers>>

\* handleBulkDelete, its dialog confirmed
HandleBulkDelete(failing) ==
    /\ isAdmin(session)
    /\ selected # << >>
    /\ LET r == bulkDelete(tasks, selected, failing)
       IN /\ tasks' = r.tasks
          /\ last' = [op |-> "handleBulkDelete", id |-> 0, err |-> r.err, effects |-> << >>]
          /\ selected' = IF r.err = "none" THEN << >> ELSE selected
          /\ toast' = IF r.err = "none" THEN [type |-> "deleted", count |-> Len(selected)]
                      ELSE toast
    /\ UNCHANGED <<issued, serial, now, session, backend, calls, faults, mirror, users, expiresAt, _cachedUser, awaiting, authUsers>>

\* SpecBulk: an admin creates tasks, moves them to submitted, selects some
\* and approves or deletes the selection, while single requests fail.
\* which single requests fail: none, either task's, both
Failings == SUBSET {1, 2}

NextBulk ==
    \/ Login("admin@tracker.com", "admin123")
    \/ AddTask(1, "u3")
    \/ \E id \in TaskIds : UploadCompletedCreative(id, "img1")
    \/ \E id \in TaskIds : SubmitTask(id)
    \/ \E id \in TaskIds : ToggleTaskSelection(id)
    \/ \E failing \in Failings : HandleBulkApprove(failing)
    \/ \E failing \in Failings : HandleBulkDelete(failing)

SpecBulk == Init /\ [][NextBulk]_vars

\* the ids in the sequence ids
Range(ids) == {ids[i] : i \in 1..Len(ids)}

\* the selected tasks that are present and submitted
SelectedSubmitted == {id \in Range(selected) : /\ hasTask(tasks, id)
                                               /\ _getTaskById(tasks, id).status = "submitted"}

C18_BulkFailureDoesNotAbort ==
    [][/\ \A failing \in Failings :
             (last'.op = "handleBulkApprove" /\ HandleBulkApprove(failing))
             => /\ selected' = << >>
                /\ \A id \in SelectedSubmitted \ failing :
                      _getTaskById(tasks', id).status = "approved"
       /\ \A failing \in Failings :
             (last'.op = "handleBulkDelete" /\ HandleBulkDelete(failing))
             => /\ selected' = << >>
                /\ \A id \in Range(selected) \ failing : ~hasTask(tasks', id)]_vars

\* ------------------------------------------------------------ users CRUD
\* a user call's outcome: the users it leaves and the error it threw, if any
OkUsers(us) == [err |-> "none", users |-> us]
ThrowUsers(e, us) == [err |-> e, users |-> us]

\* the role of the stored user id, NULL when no such user is stored
roleOf(us, id) ==
    IF \E i \in 1..Len(us) : us[i].id = id
    THEN us[CHOOSE i \in 1..Len(us) : us[i].id = id].role
    ELSE NULL

emailTaken(us, email) == \E i \in 1..Len(us) : us[i].email = email

\* store.js addUser and deleteUser
_addUser(us, id, userData) ==
    IF emailTaken(us, userData.email)
    THEN ThrowUsers("User with this email already exists", us)
    ELSE OkUsers(Append(us, [id |-> id] @@ userData))

_deleteUser(us, id) == OkUsers(SelectSeq(us, LAMBDA u : u.id # id))

\* profiles.role CHECK (role IN ('superadmin', 'admin', 'freelancer'))
Roles == {"superadmin", "admin", "freelancer"}

\* the error of the profile insert of the row [id, name, email, role]: the
\* request fails under "profile", the table refuses a role outside its
\* CHECK and an email that a profile has
profileError(us, body) ==
    IF "profile" \in faults THEN FetchError
    ELSE IF body.role \notin Roles
    THEN "new row for relation \"profiles\" violates check constraint"
    ELSE IF emailTaken(us, body.email)
    THEN "duplicate key value violates unique constraint \"profiles_email_key\""
    ELSE "none"

\* the create-user function called by the user caller with this body, on
\* the profiles us and the auth users au; id is the id of the auth user it
\* creates. The deleteUser of its rollback fails under "rollback", and its
\* error is not looked at.
createUserFunction(us, au, caller, id, body) ==
    LET Refused(e) == [err |-> e, users |-> us, authUsers |-> au]
        created == au \cup {[id |-> id, email |-> body.email]}
    IN IF caller = NULL THEN Refused("Unauthorized")
       ELSE IF roleOf(us, caller) \notin {"admin", "superadmin"}
       THEN Refused("Admin access required")
       ELSE IF "" \in {body.email, body.password, body.name, body.role}
       THEN Refused("Missing required fields: email, password, name, role")
       ELSE IF body.role = "admin" /\ roleOf(us, caller) # "superadmin"
       THEN Refused("Only super admins can create admin users")
       ELSE IF \E a \in au : a.email = body.email
       THEN Refused("A user with this email address has already been registered")
       ELSE IF profileError(us, body) # "none"
       THEN [err |-> profileError(us, body), users |-> us,
             authUsers |-> IF "rollback" \in faults THEN created ELSE au]
       ELSE [err |-> "none", users |-> Append(us, [id |-> id] @@ body),
             authUsers |-> created]

\* the create-user function, called by the user caller: its outcome on the profiles
createUser(us, caller, id, body) ==
    LET r == createUserFunction(us, authUsers, caller, id, body)
    IN [err |-> r.err, users |-> r.users]

\* the delete-user function, called by the user caller
deleteUserFunction(us, caller, userId) ==
    IF caller = NULL THEN ThrowUsers("Unauthorized", us)
    ELSE IF roleOf(us, caller) \notin {"admin", "superadmin"}
    THEN ThrowUsers("Admin access required", us)
    ELSE IF userId = caller THEN ThrowUsers("Cannot delete your own account", us)
    ELSE IF roleOf(us, userId) = NULL THEN ThrowUsers("User not found", us)
    ELSE IF roleOf(us, userId) \in {"admin", "superadmin"} /\ roleOf(us, caller) # "superadmin"
    THEN ThrowUsers("Only super admins can delete admin users", us)
    ELSE OkUsers(SelectSeq(us, LAMBDA u : u.id # userId))

\* store.js updateUser: users[index] = { ...users[index], ...data }
_updateUser(us, id, data) ==
    IF roleOf(us, id) = NULL THEN ThrowUsers("User not found", us)
    ELSE OkUsers([us EXCEPT ![CHOOSE i \in 1..Len(us) : us[i].id = id] = data @@ @])

\* profiles FOR UPDATE USING (auth.uid() = id)
canUpdateProfile(u, id) == u # NULL /\ u = id

\* store-async.js updateUser: of the data only name and role are written
updateUser(us, id, data) ==
    IF ~isSupabaseConfigured THEN _updateUser(us, id, data)
    ELSE IF roleOf(us, id) = NULL \/ ~canUpdateProfile(session, id)
    THEN ThrowUsers(NoRows, us)
    ELSE LET updateData == [k \in DOMAIN data \cap {"name", "role"} |-> data[k]]
         IN OkUsers([us EXCEPT ![CHOOSE i \in 1..Len(us) : us[i].id = id] = updateData @@ @])

\* tasks.assigned_to and tasks.assigned_by REFERENCES profiles(id) ON DELETE SET NULL
onDeleteSetNull(ts, userId) ==
    [i \in 1..Len(ts) |->
        [ts[i] EXCEPT !.assignedTo = IF @ = userId THEN NULL ELSE @,
                      !.assignedBy = IF @ = userId THEN NULL ELSE @]]

\* store-async.js addUser and deleteUser
addUser(us, id, userData) ==
    IF ~isSupabaseConfigured THEN _addUser(us, id, userData)
    ELSE createUser(us, session, id, userData)

deleteUser(us, id) ==
    IF ~isSupabaseConfigured THEN _deleteUser(us, id)
    ELSE deleteUserFunction(us, session, id)

\* the users a session adds: one of each role the form offers, under an id
\* no stored user has
NewUsers ==
    [admin |-> [id |-> "u4", name |-> "New Admin", email |-> "newadmin@tracker.com",
                password |-> "admin456", role |-> "admin"],
     freelancer |-> [id |-> "u5", name |-> "New Freelancer", email |-> "new@tracker.com",
                     password |-> "freelancer456", role |-> "freelancer"]]

AllUserIds == UserIds \cup {NewUsers[r].id : r \in DOMAIN NewUsers}

AddUser(role) ==
    /\ session # NULL
    /\ LET r == addUser(users, NewUsers[role].id,
                        [f \in {"name", "email", "password", "role"} |-> NewUsers[role][f]])
       IN /\ users' = r.users
          /\ last' = [op |-> "addUser", id |-> 0, err |-> r.err, effects |-> << >>]
    /\ authUsers' = IF isSupabaseConfigured
                    THEN createUserFunction(users, authUsers, session, NewUsers[role].id,
                             [f \in {"name", "email", "password", "role"} |->
                                 NewUsers[role][f]]).authUsers
                    ELSE authUsers
    /\ UNCHANGED <<tasks, issued, serial, now, session, backend, calls, faults, mirror, page, expiresAt, _cachedUser, awaiting>>

\* handleDeleteUser, its dialog confirmed; the tables of the remote backend
\* null the references to a deleted profile
DeleteUser(id) ==
    /\ session # NULL
    /\ LET r == deleteUser(users, id)
       IN /\ users' = r.users
          /\ tasks' = IF isSupabaseConfigured /\ r.err = "none"
                      THEN onDeleteSetNull(tasks, id) ELSE tasks
          /\ last' = [op |-> "deleteUser", id |-> 0, err |-> r.err, effects |-> << >>]
          /\ authUsers' = IF isSupabaseConfigured /\ r.err = "none"
                          THEN {a \in authUsers : a.id # id} ELSE authUsers
    /\ UNCHANGED <<issued, serial, now, session, backend, calls, faults, mirror, page, expiresAt, _cachedUser, awaiting>>

\* the options of the role select of the user modal, in order
roleOptions(viewer) ==
    (IF roleOf(users, viewer) = "superadmin" THEN <<"admin">> ELSE << >>) \o <<"freelancer">>

\* the value of the select when the modal opens: the option marked selected,
\* the first option when none is
roleSelected(viewer, defaultRole) ==
    IF \E k \in 1..Len(roleOptions(viewer)) : roleOptions(viewer)[k] = defaultRole
    THEN defaultRole ELSE roleOptions(viewer)[1]

\* the rows of the users page that carry an edit button: the admins' table
\* is rendered for a superadmin, the freelancers' table for every viewer
rowShown(viewer, id) ==
    \/ roleOf(users, id) = "freelancer"
    \/ roleOf(users, viewer) = "superadmin" /\ roleOf(users, id) \in {"admin", "superadmin"}

\* the edit-user modal of user id, saved with the role select untouched
\* (pick = NULL) or set to the option pick
EditUser(id, pick) ==
    /\ isAdmin(session)
    /\ roleOf(users, session) # NULL
    /\ rowShown(session, id)
    /\ pick # NULL => \E k \in 1..Len(roleOptions(session)) : roleOptions(session)[k] = pick
    /\ LET user == users[CHOOSE i \in 1..Len(users) : users[i].id = id]
           role == IF pick = NULL THEN roleSelected(session, user.role) ELSE pick
           r == updateUser(users, id, [name |-> user.name, password |-> user.password,
                                       role |-> role])
       IN /\ users' = r.users
          /\ last' = [op |-> "editUser", id |-> 0, err |-> r.err, effects |-> << >>]
    /\ UNCHANGED <<tasks, issued, serial, now, session, backend, calls, faults, mirror, page, expiresAt, _cachedUser, awaiting, authUsers>>

\* updateUser called with the partial data
UpdateUser(id, data) ==
    /\ session # NULL
    /\ LET r == updateUser(users, id, data)
       IN /\ users' = r.users
          /\ last' = [op |-> "updateUser", id |-> 0, err |-> r.err, effects |-> << >>]
    /\ UNCHANGED <<tasks, issued, serial, now, session, backend, calls, faults, mirror, page, expiresAt, _cachedUser, awaiting, authUsers>>

\* the partial data updateUser is given: a role, and a name with an e-mail
UserPartials == {[role |-> "freelancer"],
                 [name |-> "Admin User", email |-> "admin@tracker.com"]}

\* SpecUsers: one of the seeded users logs in and adds, edits and deletes users.
NextUsers ==
    \/ \E i \in 1..Len(SeedUsers) : Login(SeedUsers[i].email, SeedUsers[i].password)
    \/ \E role \in DOMAIN NewUsers : AddUser(role)
    \/ \E id \in AllUserIds : DeleteUser(id)
    \/ \E id \in AllUserIds, pick \in {NULL, "admin", "freelancer"} : EditUser(id, pick)
    \/ \E id \in AllUserIds, data \in UserPartials : UpdateUser(id, data)

SpecUsers == Init /\ [][NextUsers]_vars

\* C19: creating a user with role admin and deleting a user with role admin
\* or superadmin is refused, the users left as they are, unless the caller's
\* role is superadmin.
C19_OnlySuperadminManagesAdmins ==
    [][roleOf(users, session) # "superadmin" =>
          /\ (last'.op = "addUser" /\ AddUser("admin"))
             => (users' = users /\ last'.err # "none")
          /\ \A id \in AllUserIds :
                (/\ last'.op = "deleteUser"
                 /\ roleOf(users, id) \in {"admin", "superadmin"}
                 /\ DeleteUser(id))
                => (users' = users /\ last'.err # "none")]_vars

\* C20: a deleteUser call whose target is the user of the session is refused
\* and leaves the users as they are.
C20_NoSelfDeletion ==
    [][(last'.op = "deleteUser" /\ session \in AllUserIds /\ DeleteUser(session))
       => (users' = users /\ last'.err # "none")]_vars

\* C28: creativeStatus agrees with status: approved shows Approved, rejected
\* shows Rejected, iteration shows Iteration, and a task that is assigned, in
\* progress or submitted shows neither Approved nor Rejected.
C28_CreativeStatusMirrorsStatus ==
    \A i \in 1..Len(tasks) :
        /\ tasks[i].status = "approved" => tasks[i].creativeStatus = "Approved"
        /\ tasks[i].status = "rejected" => tasks[i].creativeStatus = "Rejected"
        /\ tasks[i].status = "iteration" => tasks[i].creativeStatus = "Iteration"
        /\ tasks[i].status \in {"assigned", "in_progress", "submitted"}
              => tasks[i].creativeStatus \notin {"Approved", "Rejected"}

\* C29: rejectedAt is set or rejectionReason is non-empty only in a task
\* whose status is rejected.
C29_RejectionOnlyWhenRejected ==
    \A i \in 1..Len(tasks) :
        (tasks[i].rejectedAt # NoTime \/ tasks[i].rejectionReason \notin {NULL, ""})
            => tasks[i].status = "rejected"

\* C30: completedCreativeAt is set only in a task whose completedCreative is set.
C30_CreativeAtOnlyWithCreative ==
    \A i \in 1..Len(tasks) :
        tasks[i].completedCreativeAt # NoTime => tasks[i].completedCreative # NULL

C27_OneActivityPerTransition ==
    (last.op \in LifecycleOps /\ last.err = "none")
        => Cardinality({i \in 1..Len(last.effects) :
                           /\ last.effects[i].kind = "activity"
                           /\ last.effects[i].taskId = last.id}) = 1

\* C21: at least one stored user has role superadmin.
C21_SuperadminExists == \E i \in 1..Len(users) : users[i].role = "superadmin"

\* SpecCascade: a seeded admin creates tasks for the freelancer and users are
\* deleted.
NextCascade ==
    \/ \E i \in {1, 2} : Login(SeedUsers[i].email, SeedUsers[i].password)
    \/ Logout
    \/ AddTask(1, "u3")
    \/ \E id \in UserIds : DeleteUser(id)

SpecCascade == Init /\ [][NextCascade]_vars

\* C22: deleteUser(u) leaves the number of tasks as it is and leaves no task
\* with assignedTo = u or assignedBy = u.
C22_DeleteUserNullsReferences ==
    [][\A u \in UserIds :
          (last'.op = "deleteUser" /\ DeleteUser(u) /\ last'.err = "none")
          => /\ Len(tasks') = Len(tasks)
             /\ \A i \in 1..Len(tasks') :
                   tasks'[i].assignedTo # u /\ tasks'[i].assignedBy # u]_vars

\* no two stored users share an e-mail
UniqueEmails ==
    \A i, j \in 1..Len(users) : users[i].email = users[j].email => i = j

\* C23: addUser with the e-mail of a stored user fails and leaves the users
\* as they are, and no two stored users ever share an e-mail.
C23_EmailsUnique ==
    [][/\ \A role \in DOMAIN NewUsers :
             (/\ last'.op = "addUser"
              /\ emailTaken(users, NewUsers[role].email)
              /\ AddUser(role))
             => (users' = users /\ last'.err # "none")
       /\ UniqueEmails']_vars

\* ------------------------------------------------- store.js: the session
\* SESSION_DURATION, 24 hours, in clock readings of 12 hours
SESSION_DURATION == 2
MaxSessionNow == 7

\* getCurrentUser that never moves the expiry
_getCurrentUser_Fixed(s, exp, t) ==
    IF s = NULL THEN [session |-> NULL, expiresAt |-> exp, user |-> NULL]
    ELSE IF exp # NoTime /\ exp < t
    THEN [session |-> NULL, expiresAt |-> NoTime, user |-> NULL]
    ELSE [session |-> s,
          expiresAt |-> exp,
          user |-> IF roleOf(users, s) = NULL THEN NULL ELSE s]

\* getCurrentUser on the stored session s with expiry exp, read at time t:
\* the session it leaves and the user it returns
_getCurrentUser(s, exp, t) ==
    IF s = NULL THEN [session |-> NULL, expiresAt |-> exp, user |-> NULL]
    ELSE IF exp # NoTime /\ exp < t
    THEN [session |-> NULL, expiresAt |-> NoTime, user |-> NULL]
    ELSE [session |-> s,
          expiresAt |-> IF exp # NoTime THEN t + SESSION_DURATION ELSE exp,
          user |-> IF roleOf(users, s) = NULL THEN NULL ELSE s]

\* time passes
Elapse ==
    /\ now < MaxSessionNow
    /\ now' = now + 1
    /\ UNCHANGED <<tasks, issued, serial, session, backend, last>>
    /\ UNCHANGED aside

\* store.js login: the session is stored when the credentials match
StoreLogin(email, password) ==
    /\ ~isSupabaseConfigured
    /\ LET user == _login(email, password)
       IN /\ session' = IF user = NULL THEN session ELSE user
          /\ expiresAt' = IF user = NULL THEN expiresAt ELSE now + SESSION_DURATION
          /\ last' = [op |-> "login", id |-> 0, err |-> "none", effects |-> << >>,
                      user |-> user]
    /\ UNCHANGED <<tasks, issued, serial, now, backend, calls, faults, mirror, page, users, _cachedUser, awaiting, authUsers>>

\* store.js logout
StoreLogout ==
    /\ ~isSupabaseConfigured
    /\ session' = NULL
    /\ expiresAt' = NoTime
    /\ last' = [op |-> "logout", id |-> 0, err |-> "none", effects |-> << >>, user |-> NULL]
    /\ UNCHANGED <<tasks, issued, serial, now, backend, calls, faults, mirror, page, users, _cachedUser, awaiting, authUsers>>

\* a read of the current user
GetCurrentUser ==
    /\ ~isSupabaseConfigured
    /\ LET r == _getCurrentUser(session, expiresAt, now)
       IN /\ session' = r.session
          /\ expiresAt' = r.expiresAt
          /\ last' = [op |-> "getCurrentUser", id |-> 0, err |-> "none", effects |-> << >>,
                      user |-> r.user]
    /\ UNCHANGED <<tasks, issued, serial, now, backend, calls, faults, mirror, page, users, _cachedUser, awaiting, authUsers>>

\* SpecSession: logins, reads of the current user and logouts against the
\* embedded store while time passes.
NextSession ==
    \/ Elapse
    \/ \E i \in 1..Len(SeedUsers), pw \in Passwords : StoreLogin(SeedUsers[i].email, pw)
    \/ StoreLogout
    \/ GetCurrentUser

SpecSession == Init /\ [][NextSession]_vars

\* C24: a successful login stores a session that expires 24 hours later; a
\* read before the expiry returns the user and moves the expiry to 24 hours
\* after the read; a read after the expiry returns null and removes the
\* session; a read without a session returns null and leaves none.
C24_SlidingSession ==
    [][/\ \A i \in 1..Len(SeedUsers) :
             (last'.op = "login"
              /\ StoreLogin(SeedUsers[i].email, SeedUsers[i].password))
             => /\ session' = SeedUsers[i].id
                /\ expiresAt' = now + SESSION_DURATION
       /\ (last'.op = "getCurrentUser" /\ GetCurrentUser)
          => /\ (session # NULL /\ now < expiresAt)
                => /\ last'.user = session
                   /\ session' = session
                   /\ expiresAt' = now + SESSION_DURATION
             /\ (session # NULL /\ now > expiresAt)
                => /\ last'.user = NULL
                   /\ session' = NULL
             /\ session = NULL
                => /\ last'.user = NULL
                   /\ session' = NULL]_vars

\* a read returned the user after the window of any login at the first clock
\* reading had passed, and moved the expiry
C24_Witness ==
    /\ last.op = "getCurrentUser"
    /\ last.user = session
    /\ session # NULL
    /\ now > 1 + SESSION_DURATION
    /\ expiresAt = now + SESSION_DURATION

\* -------------------------------------------------- addTask, every field
\* value || fallback, for a string or null and for a number
orElse(value, fallback) == IF value \in {NULL, ""} THEN fallback ELSE value
orElseNumber(value, fallback) == IF value = 0 THEN fallback ELSE value

\* NUMERIC(10,2): an amount in thousandths, rounded to hundredths
numeric2(amount) == ((amount + 5) \div 10) * 10

\* the fields of the task literal of store.js addTask that newTask leaves
\* out; a date that is absent is NoTime
_taskDetails(taskData) ==
    [client |-> orElse(taskData.client, ""),
     type |-> orElse(taskData.type, "Static"),
     referenceCreative |-> orElse(taskData.referenceCreative, NULL),
     editableFileShared |-> orElse(taskData.editableFileShared, "No"),
     amount |-> orElseNumber(taskData.amount, 0),
     paymentStatus |-> orElse(taskData.paymentStatus, "Unpaid"),
     dueDate |-> orElseNumber(taskData.dueDate, NoTime)]

\* the same fields of the row that insertData of store-async.js addTask yields
insertDetails(taskData) ==
    [client |-> orElse(taskData.client, ""),
     type |-> orElse(taskData.type, "Static"),
     referenceCreative |-> orElse(taskData.referenceCreative, NULL),
     editableFileShared |-> orElse(taskData.editableFileShared, "No"),
     amount |-> numeric2(orElseNumber(taskData.amount, 0)),
     paymentStatus |-> orElse(taskData.paymentStatus, "Unpaid"),
     dueDate |-> orElseNumber(taskData.dueDate, NoTime),
     description |-> orElse(taskData.description, ""),
     sourceLink |-> orElse(taskData.sourceLink, "")]

\* the task data a caller supplies
SuppliedFields == {"date", "client", "type", "referenceCreative", "editableFileShared",
                   "amount", "paymentStatus", "assignedTo", "assignedBy", "dueDate",
                   "description", "sourceLink"}

TaskDatas ==
    [date : Dates, client : {"Acme", "Globex"}, type : {"Static", "Video"},
     referenceCreative : {NULL, "ref1"}, editableFileShared : {"No", "Yes"},
     amount : {0, 1000, 1005}, paymentStatus : {"Unpaid"}, assignedTo : {"u3"},
     assignedBy : {"u2"}, dueDate : {NoTime, 2},
     description : {"", "brief"}, sourceLink : {"", "link1"}]

\* addTask(taskData) into an empty store, then getTaskById of the new id
AddTaskThenGet(taskData) ==
    /\ session # NULL
    /\ tasks = << >>
    /\ Len(issued) < MaxCreated
    /\ serial < MaxCreated
    /\ LET id == Len(issued) + 1
           r == addTask(tasks, id, taskData, now)
           stored == IF r.err # "none" THEN r.tasks
                     ELSE [r.tasks EXCEPT ![Len(r.tasks)] =
                              @ @@ (IF isSupabaseConfigured THEN insertDetails(taskData)
                                    ELSE _taskDetails(taskData))]
       IN /\ tasks' = stored
          /\ issued' = IF r.err = "none" THEN Append(issued, stored[Len(stored)].slNo)
                       ELSE issued
          /\ last' = [op |-> "addTask", id |-> id, err |-> r.err, effects |-> r.effects,
                      data |-> taskData,
                      found |-> r.err = "none" /\ foundTask(stored, id)]
    /\ serial' = IF isSupabaseConfigured THEN serial + 1 ELSE serial
    /\ UNCHANGED <<now, session, backend>>
    /\ UNCHANGED aside

\* SpecRoundTrip: an admin adds one task with every field supplied and reads
\* it back.
NextRoundTrip ==
    \/ Login("admin@tracker.com", "admin123")
    \/ \E taskData \in TaskDatas : AddTaskThenGet(taskData)

SpecRoundTrip == Init /\ [][NextRoundTrip]_vars

\* C25: the task read back after addTask(data) carries every caller-supplied
\* field with the value supplied.
C25_AddTaskRoundTrip ==
    (last.op = "addTask" /\ last.err = "none" /\ "data" \in DOMAIN last)
        => /\ last.found
           /\ \A k \in SuppliedFields :
                 /\ k \in DOMAIN getTaskById(tasks, last.id)
                 /\ getTaskById(tasks, last.id)[k] = last.data[k]

\* C31: the lifecycle timestamps agree with the status: an assigned or
\* iteration task has neither pickedUpAt nor submittedAt, a task in progress
\* has pickedUpAt and no submittedAt, and a submitted task has both.
C31_TimestampsAgreeWithStatus ==
    \A i \in 1..Len(tasks) :
        /\ tasks[i].status \in {"assigned", "iteration"}
              => (tasks[i].pickedUpAt = NoTime /\ tasks[i].submittedAt = NoTime)
        /\ tasks[i].status = "in_progress"
              => (tasks[i].pickedUpAt # NoTime /\ tasks[i].submittedAt = NoTime)
        /\ tasks[i].status = "submitted"
              => (tasks[i].pickedUpAt # NoTime /\ tasks[i].submittedAt # NoTime)

\* C32: a lifecycle operation called with the id of no task fails with an
\* error and leaves the tasks and their iterations as they are, with no
\* notification and no activity entry written.
C32_MissingIdFails ==
    [][(/\ last'.op \in {"pickUpTask", "submitTask", "approveTask", "rejectTask",
                         "requestIteration", "resolveIteration"}
        /\ last'.id = Missing)
       => (/\ last'.err # "none"
           /\ tasks' = tasks
           /\ last'.effects = << >>)]_vars

\* ------------------------------------------------ addTask / updateTask retry
\* addTask of the task form, with the write requests it issued
AddTaskWrites(description) ==
    /\ session # NULL
    /\ Len(tasks) < MaxTasks
    /\ Len(issued) < MaxCreated
    /\ serial < MaxCreated
    /\ LET id == Len(issued) + 1
           r == addTask(tasks, id, [date |-> 1, assignedTo |-> "u3", assignedBy |-> session,
                                    description |-> description, sourceLink |-> ""], now)
       IN /\ tasks' = r.tasks
          /\ issued' = IF r.err = "none"
                       THEN Append(issued, r.tasks[Len(r.tasks)].slNo)
                       ELSE issued
          /\ last' = [op |-> "addTask", id |-> id, err |-> r.err, effects |-> r.effects,
                      requests |-> IF isSupabaseConfigured
                                   THEN writeRequests(InsertColumns) ELSE << >>]
    /\ serial' = IF isSupabaseConfigured /\ last'.err \in {"none", RlsDenied}
                 THEN serial + 1 ELSE serial
    /\ UNCHANGED <<now, session, backend>>
    /\ UNCHANGED aside

\* updateTask(id, data), with the write requests it issued
UpdateTaskWrites(id, data) ==
    /\ session # NULL
    /\ LET r == updateTask(tasks, id, data)
       IN /\ tasks' = r.tasks
          /\ last' = [op |-> "updateTask", id |-> id, err |-> r.err, effects |-> r.effects,
                      data |-> data,
                      requests |-> IF isSupabaseConfigured
                                   THEN writeRequests(DOMAIN snakeData(data)) ELSE << >>]
    /\ UNCHANGED <<issued, serial, now, session, backend>>
    /\ UNCHANGED aside

WritePartials == {[status |-> "in_progress"],
                  [date |-> 2, description |-> "brief", sourceLink |-> "link1"]}

\* SpecRetry: an admin creates and updates tasks and requests iterations
\* while the tasks table lacks the newer columns or its write requests are lost.
NextRetry ==
    \/ \E F \in SUBSET {"schema", "write"} : SetFaults(F)
    \/ Login("admin@tracker.com", "admin123")
    \/ \E d \in {"", "brief"} : AddTaskWrites(d)
    \/ \E id \in {1, Missing}, data \in WritePartials : UpdateTaskWrites(id, data)
    \/ RequestIteration(1, "color off", "freelancer")

SpecRetry == Init /\ [][NextRetry]_vars

\* C33: a remote addTask or updateTask issues one write request, or two; the
\* second is issued only after the first failed with an error naming a column
\* and carries the columns of the first without description and source_link
\* (an update that succeeds on it stores the data of those columns); any other
\* error of the first is the error of the call, which then changes nothing;
\* and an addTask has at most one request that succeeds and adds at most one
\* task.
C33_AtMostOneRetry ==
    [][(/\ isSupabaseConfigured
        /\ last'.op \in {"addTask", "updateTask"}
        /\ "requests" \in DOMAIN last')
       => LET rq == last'.requests
          IN /\ Len(rq) \in 1..2
             /\ Len(rq) = 2
                   => /\ rq[1].error = MissingColumn
                      /\ rq[2].columns = rq[1].columns \ {"description", "source_link"}
                      /\ (last'.op = "updateTask" /\ last'.err = "none")
                            => \A c \in rq[2].columns :
                                  getTaskById(tasks', last'.id)[toCamelCase(c)]
                                      = last'.data[toCamelCase(c)]
             /\ rq[1].error \notin {"none", MissingColumn}
                   => /\ Len(rq) = 1
                      /\ last'.err = rq[1].error
                      /\ tasks' = tasks
             /\ rq[1].error = "none" => Len(rq) = 1
             /\ last'.op = "addTask"
                   => /\ Cardinality({k \in 1..Len(rq) : rq[k].error = "none"}) <= 1
                      /\ Len(tasks') <= Len(tasks) + 1]_vars

\* an updateTask that carried description succeeded on its second request
C33_Witness ==
    /\ isSupabaseConfigured
    /\ last.op = "updateTask"
    /\ "requests" \in DOMAIN last
    /\ Len(last.requests) = 2
    /\ last.err = "none"
    /\ last.requests[2].error = "none"
    /\ "description" \in last.requests[1].columns

\* C34: a task has an unresolved iteration exactly when its status is
\* iteration; an approved or rejected task has none.
C34_OpenIterationIffIterationStatus ==
    \A i \in 1..Len(tasks) :
        (\E k \in 1..Len(tasks[i].iterations) : tasks[i].iterations[k].resolvedAt = NoTime)
            <=> tasks[i].status = "iteration"

\* C35: a remote requestIteration that returns an error leaves the task with
\* the iterations, status, pickedUpAt and submittedAt it had before the call.
C35_RequestIterationAllOrNothing ==
    [][(/\ isSupabaseConfigured
        /\ last'.op = "requestIteration"
        /\ last'.err # "none"
        /\ hasTask(tasks, last'.id)
        /\ RequestIteration(last'.id, "color off", "freelancer"))
       => LET before == _getTaskById(tasks, last'.id)
              after == _getTaskById(tasks', last'.id)
          IN /\ after.iterations = before.iterations
             /\ after.status = before.status
             /\ after.pickedUpAt = before.pickedUpAt
             /\ after.submittedAt = before.submittedAt]_vars

\* ------------------------------------------------ remote auth and its cache
InvalidCredentials == "Invalid login credentials"

\* the return of a getCurrentUser call
Returned(user, from) ==
    [op |-> "getCurrentUser", id |-> 0, err |-> "none", effects |-> << >>,
     user |-> user, from |-> from]

\* login(email, password): signInWithPassword, then the profile into the cache
RemoteLogin(email, password) ==
    /\ isSupabaseConfigured
    /\ LET user == _login(email, password)
       IN /\ session' = IF user = NULL THEN session ELSE user
          /\ _cachedUser' = IF user = NULL THEN _cachedUser ELSE user
          /\ last' = [op |-> "login", id |-> 0,
                      err |-> IF user = NULL THEN InvalidCredentials ELSE "none",
                      effects |-> << >>, user |-> user, from |-> "profile"]
    /\ UNCHANGED <<tasks, issued, serial, now, backend, calls, faults, mirror, page, users,
                   expiresAt, awaiting, authUsers>>

\* logout(), up to its await: the cache is set to null
LogoutBegin ==
    /\ isSupabaseConfigured
    /\ awaiting.logout = "idle"
    /\ _cachedUser' = NULL
    /\ awaiting' = [awaiting EXCEPT !.logout = "signOut"]
    /\ UNCHANGED <<tasks, issued, serial, now, session, backend, last, calls, faults, mirror,
                   page, users, expiresAt, authUsers>>

\* signOut() resolves: the session is gone, the SIGNED_OUT listener has
\* cleared the cache, and logout() returns
LogoutEnd ==
    /\ awaiting.logout = "signOut"
    /\ session' = NULL
    /\ _cachedUser' = UNDEFINED
    /\ awaiting' = [awaiting EXCEPT !.logout = "idle"]
    /\ last' = [op |-> "logout", id |-> 0, err |-> "none", effects |-> << >>,
                user |-> NULL, from |-> "signOut"]
    /\ UNCHANGED <<tasks, issued, serial, now, backend, calls, faults, mirror, page, users,
                   expiresAt, authUsers>>

\* getCurrentUser(), up to its first await: the cache when it is loaded
GetCurrentUserBegin ==
    /\ isSupabaseConfigured
    /\ awaiting.getCurrentUser = "idle"
    /\ IF _cachedUser # UNDEFINED
       THEN /\ last' = Returned(_cachedUser, "cache")
            /\ UNCHANGED awaiting
       ELSE /\ awaiting' = [awaiting EXCEPT !.getCurrentUser = "getSession"]
            /\ UNCHANGED last
    /\ UNCHANGED <<tasks, issued, serial, now, session, backend, calls, faults, mirror, page,
                   users, expiresAt, _cachedUser, authUsers>>

\* renderApp(): clearUserCache(), then getCurrentUser()
RenderApp ==
    /\ isSupabaseConfigured
    /\ awaiting.getCurrentUser = "idle"
    /\ _cachedUser' = UNDEFINED
    /\ awaiting' = [awaiting EXCEPT !.getCurrentUser = "getSession"]
    /\ UNCHANGED <<tasks, issued, serial, now, session, backend, last, calls, faults, mirror,
                   page, users, expiresAt, authUsers>>

\* getSession() resolves: without a session null is cached and returned, with
\* one the profile of its user is requested
GetCurrentUserSession ==
    /\ awaiting.getCurrentUser = "getSession"
    /\ IF session = NULL
       THEN /\ _cachedUser' = NULL
            /\ awaiting' = [awaiting EXCEPT !.getCurrentUser = "idle"]
            /\ last' = Returned(NULL, "session")
       ELSE /\ awaiting' = [awaiting EXCEPT !.getCurrentUser = "profile", !.user = session]
            /\ UNCHANGED <<_cachedUser, last>>
    /\ UNCHANGED <<tasks, issued, serial, now, session, backend, calls, faults, mirror, page,
                   users, expiresAt, authUsers>>

\* the profile arrives: it is cached and returned
GetCurrentUserProfile ==
    /\ awaiting.getCurrentUser = "profile"
    /\ _cachedUser' = awaiting.user
    /\ awaiting' = [awaiting EXCEPT !.getCurrentUser = "idle", !.user = NULL]
    /\ last' = Returned(awaiting.user, "profile")
    /\ UNCHANGED <<tasks, issued, serial, now, session, backend, calls, faults, mirror, page,
                   users, expiresAt, authUsers>>

\* SpecCache: logins, logouts, renders and getCurrentUser calls of one page of
\* the remote build, interleaved at their awaits.
NextCache ==
    \/ \E i \in 1..Len(SeedUsers), password \in Passwords :
           RemoteLogin(SeedUsers[i].email, password)
    \/ LogoutBegin
    \/ LogoutEnd
    \/ RenderApp
    \/ GetCurrentUserBegin
    \/ GetCurrentUserSession
    \/ GetCurrentUserProfile

SpecCache == Init /\ [][NextCache]_vars

\* C36: in the remote backend, while no session exists (logout has completed
\* and no login has succeeded since), a getCurrentUser call answered from the
\* cache returns null.
C36_NullAfterLogout ==
    (/\ isSupabaseConfigured
     /\ session = NULL
     /\ last.op = "getCurrentUser"
     /\ last.from = "cache")
        => last.user = NULL

\* ------------------------------------------------ the create-user function
\* the ids of the auth users the function creates
FreshIds == {"u4", "u5"}

\* the bodies of the requests: each role the profiles table knows and one it
\* does not, a new email and one that is registered, with and without a name
Bodies ==
    [name : {"New User", ""}, email : {"new@tracker.com", "admin@tracker.com"},
     password : {"secret123"}, role : Roles \cup {"manager"}]

\* a request to the create-user function, sent under the session
CreateUser(body) ==
    /\ isSupabaseConfigured
    /\ \E id \in FreshIds : (\A a \in authUsers : a.id # id) /\ roleOf(users, id) = NULL
    /\ LET id == CHOOSE id \in FreshIds :
                     (\A a \in authUsers : a.id # id) /\ roleOf(users, id) = NULL
           r == createUserFunction(users, authUsers, session, id, body)
       IN /\ users' = r.users
          /\ authUsers' = r.authUsers
          /\ last' = [op |-> "createUser", id |-> 0, err |-> r.err, effects |-> << >>,
                      user |-> id, body |-> body]
    /\ UNCHANGED <<tasks, issued, serial, now, session, backend, calls, faults, mirror, page,
                   expiresAt, _cachedUser, awaiting>>

\* SpecFunction: the seeded users log in and out and send requests to the
\* create-user function, while its profile insert or its rollback fails.
NextFunction ==
    \/ \E F \in SUBSET {"profile", "rollback"} : SetFaults(F)
    \/ \E i \in 1..Len(SeedUsers) : Login(SeedUsers[i].email, SeedUsers[i].password)
    \/ Logout
    \/ \E body \in Bodies : CreateUser(body)
    \/ \E id \in FreshIds : DeleteUser(id)

SpecFunction == Init /\ [][NextFunction]_vars

\* C37: a request to the create-user function by a caller whose role is
\* admin adds no user whose role is superadmin.
C37_AdminCreatesNoSuperadmin ==
    [][(last'.op = "createUser" /\ roleOf(users, session) = "admin")
       => \A i \in 1..Len(users') :
             users'[i].role = "superadmin" => roleOf(users, users'[i].id) # NULL]_vars

\* C38: when the create-user function has returned, the auth user this call
\* created exists exactly when a profile row with its id exists.
C38_AuthUserIffProfile ==
    [][(/\ last'.op = "createUser"
        /\ "body" \in DOMAIN last'
        /\ CreateUser(last'.body))
       => ((\E a \in authUsers' : a.id = last'.user)
              <=> roleOf(users', last'.user) # NULL)]_vars

=============================================================================
